---- MODULE Spec2Model ----
(***************************************************************************)
(* The bulk indexer of go-elasticsearchutil (the queue-based revision of   *)
(* the Indexer: Q sends on a buffered channel, Run selects over the        *)
(* channel, a ticker and the shutdown channel).                            *)
(*                                                                         *)
(* A message is identified by its position in msgs (the order in which the *)
(* producers' Q calls took effect).  The bulk service of the olivere       *)
(* client is the sequence of requests added to it and not yet cleared; its *)
(* Do() clears that sequence only when the remote call succeeds, and the   *)
(* indexer itself never resets it.                                         *)
(***************************************************************************)
EXTENDS Integers, Sequences, FiniteSets, TLC

\* ---------------------------------------------------------------- bounds
\* Number of Q calls explored.
MaxMsgs == 3
\* Number of esBulkServiceFlush calls recorded (the ticker never stops firing).
MaxFlushes == 3
\* Buffered messages explored: the channel's capacity in the model.
MaxQueue == 2

\* ------------------------------------------------------ program constants
defaultElasticsearchIndexerBufferedChannelSize == 64
defaultElasticsearchIndexerMaxBatchIntervalMillis == 10000
defaultElasticsearchIndexerMaxBatchSizeBytes == 1024 * 10
defaultElasticsearchIndexerSleepIntervalMillis == 1000

\* One step of TimePasses, in milliseconds: half a batch interval.
TimeUnitMillis == 5 * defaultElasticsearchIndexerSleepIntervalMillis
IntervalUnits == defaultElasticsearchIndexerMaxBatchIntervalMillis \div TimeUnitMillis

\* len(msg.Payload) of the messages explored: two fifths of the maximum batch
\* size (three of them cross it, two do not), and the maximum itself.
PayloadSizes ==
    { (2 * defaultElasticsearchIndexerMaxBatchSizeBytes) \div 5,
      defaultElasticsearchIndexerMaxBatchSizeBytes }

\* Message.Header: a nil *MessageHeader, a header whose Index is nil, a header
\* with an Index.
Headers == {"nilHeader", "nilIndex", "hasIndex"}

\* cap(indexer.q), cut to the queue lengths explored.
QueueCapacity ==
    IF defaultElasticsearchIndexerBufferedChannelSize < MaxQueue
    THEN defaultElasticsearchIndexerBufferedChannelSize
    ELSE MaxQueue

\* A channel that never reports itself full.
FullNever(queue) == FALSE

\* The buffered channel holds cap(indexer.q) messages: a send on it blocks.
Full(queue) == Len(queue) >= QueueCapacity

\* The messages producers pass to Q.  Q's send is one atomic step of the
\* channel, so concurrent producers are the interleavings of Q.
Message == [hdr : Headers, size : PayloadSizes]

\* The zero value of a channel field that no code assigns.
NilChan == "nilChan"

VARIABLES
    elasticClients,    \* len(elasticClients), the package's configured clients
    constructed,       \* NewIndexer has returned the indexer
    client,            \* indexer.client: "nil" or "live"
    shutdown,          \* indexer.shutdown: NilChan, the only value the code gives it
    q,                 \* indexer.q: the buffered messages (ids), oldest first
    qClosed,           \* close(indexer.q) has run
    msgs,              \* the messages passed to Q so far, in order of effect
    qReturn,           \* qReturn[i]: what Q returned for msgs[i]
    esBulkService,     \* the requests held by indexer.esBulkService (ids)
    queueSizeInBytes,  \* indexer.queueSizeInBytes
    flushMutex,        \* indexer.flushMutex is locked
    tickerState,       \* indexer.queueFlushTicker: "none", "running", "stopped"
    tickerC,           \* a tick is buffered in queueFlushTicker.C
    elapsed,           \* time units since the ticker was armed or last fired
    pc,                \* Run: "idle", "select", "do", "returned", "panicked"
    call,              \* the flush waiting in Do(): its trigger, the message index
                       \* adds after it, the requests sent
    flushes,           \* the first MaxFlushes calls of esBulkServiceFlush
    stopPc             \* Stop: "none", "sending", "returned"

vars ==
    << elasticClients, constructed, client, shutdown, q, qClosed, msgs, qReturn,
       esBulkService, queueSizeInBytes, flushMutex, tickerState, tickerC, elapsed,
       pc, call, flushes, stopPc >>

NoCall == [trigger |-> "none", msg |-> 0, items |-> << >>]

\* ------------------------------------------------------------ helpers
\* GetClient: the first configured client, or an error when there is none.
GetClient(n) ==
    IF n = 0 THEN [client |-> "nil", err |-> "failed to retrieve elasticsearch client"]
    ELSE [client |-> "live", err |-> "nil"]

\* SizeTrigger with a strict comparison.
SizeTriggerStrict(bytes, size) ==
    bytes + size > defaultElasticsearchIndexerMaxBatchSizeBytes

\* SizeTrigger on the byte total without the incoming message.
SizeTriggerTotalOnly(bytes, size) ==
    bytes >= defaultElasticsearchIndexerMaxBatchSizeBytes

\* SizeTrigger that holds of every message.
SizeTriggerAlways(bytes, size) == TRUE

\* The guard of index's flush: the prospective byte total meets the maximum.
SizeTrigger(bytes, size) ==
    bytes + size >= defaultElasticsearchIndexerMaxBatchSizeBytes

\* Run's second look at a dequeued message: msg.Header.Index != nil, which
\* dereferences msg.Header.
RunCheck(h) ==
    CASE h = "nilHeader" -> "panic"
      [] h = "nilIndex" -> "skip"
      [] OTHER -> "index"

\* IndexCheck that accepts every message.
IndexCheckNone(h) == "nil"

\* index's own validation of the message.
IndexCheck(h) ==
    CASE h = "nilHeader" -> "no header provided"
      [] h = "nilIndex" -> "no index provided in header"
      [] OTHER -> "nil"

\* What Q returns once its send has completed.
QResult(m) == "nil"

\* BulkService.Do: the requests left in the service after the call; the list
\* of actions is cleared on success only.
AfterDo(outcome, requests) ==
    IF outcome = "ok" THEN << >> ELSE requests

\* EmptyBatch with the check left out.
EmptyBatchNever(requests) == FALSE

\* The guard of esBulkServiceFlush's early return: NumberOfActions() == 0.
EmptyBatch(requests) == Len(requests) = 0

\* The result of esBulkServiceFlush when nothing is queued.
NothingQueued == "nothing was queued"

\* ReadyCases of a select without the ticker case.
ReadyCasesNoTick ==
    LET r == (IF Len(q) > 0 \/ qClosed THEN {"q"} ELSE {})
             \cup (IF shutdown # NilChan /\ stopPc = "sending" THEN {"shutdown"} ELSE {})
    IN  IF r = {} THEN {"default"} ELSE r

\* The cases of Run's select that can proceed; default when there is none.
ReadyCases ==
    LET r == (IF Len(q) > 0 \/ qClosed THEN {"q"} ELSE {})
             \cup (IF tickerState # "none" /\ tickerC THEN {"tick"} ELSE {})
             \cup (IF shutdown # NilChan /\ stopPc = "sending" THEN {"shutdown"} ELSE {})
    IN  IF r = {} THEN {"default"} ELSE r

Range(s) == { s[i] : i \in 1..Len(s) }

\* ---------------------------------------------------------------- Init
\* The state after NewIndexer() with a configured client.
Init ==
    /\ elasticClients = 1
    /\ constructed = TRUE
    /\ client = "live"
    /\ shutdown = NilChan
    /\ q = << >>
    /\ qClosed = FALSE
    /\ msgs = << >>
    /\ qReturn = << >>
    /\ esBulkService = << >>
    /\ queueSizeInBytes = 0
    /\ flushMutex = FALSE
    /\ tickerState = "none"
    /\ tickerC = FALSE
    /\ elapsed = 0
    /\ pc = "idle"
    /\ call = NoCall
    /\ flushes = << >>
    /\ stopPc = "none"

\* The state before NewIndexer(): the package may or may not hold a client.
InitNew ==
    /\ elasticClients \in {0, 1}
    /\ constructed = FALSE
    /\ client = "nil"
    /\ shutdown = NilChan
    /\ q = << >>
    /\ qClosed = FALSE
    /\ msgs = << >>
    /\ qReturn = << >>
    /\ esBulkService = << >>
    /\ queueSizeInBytes = 0
    /\ flushMutex = FALSE
    /\ tickerState = "none"
    /\ tickerC = FALSE
    /\ elapsed = 0
    /\ pc = "idle"
    /\ call = NoCall
    /\ flushes = << >>
    /\ stopPc = "none"

\* ------------------------------------------------- the worker's state
\* The fields Run, index, cleanup and esBulkServiceFlush read and write.
Worker ==
    [ q |-> q, qClosed |-> qClosed, requests |-> esBulkService,
      bytes |-> queueSizeInBytes, mutex |-> flushMutex, tickerState |-> tickerState,
      tickerC |-> tickerC, elapsed |-> elapsed, pc |-> pc, call |-> call,
      flushes |-> flushes, stopPc |-> stopPc ]

Becomes(w) ==
    /\ q' = w.q
    /\ qClosed' = w.qClosed
    /\ esBulkService' = w.requests
    /\ queueSizeInBytes' = w.bytes
    /\ flushMutex' = w.mutex
    /\ tickerState' = w.tickerState
    /\ tickerC' = w.tickerC
    /\ elapsed' = w.elapsed
    /\ pc' = w.pc
    /\ call' = w.call
    /\ flushes' = w.flushes
    /\ stopPc' = w.stopPc

\* BulkAdd putting the request in front of the ones held.
BulkPrepend(w, k) ==
    [w EXCEPT !.requests = << k >> \o @, !.bytes = @ + msgs[k].size]

\* esBulkService.Add(req); queueSizeInBytes += size
BulkAdd(w, k) ==
    [w EXCEPT !.requests = Append(@, k), !.bytes = @ + msgs[k].size]

\* The record of a call of esBulkServiceFlush, kept for the first MaxFlushes
\* calls.
Log(fl, rec) == IF Len(fl) < MaxFlushes THEN Append(fl, rec) ELSE fl

\* Lock leaving the mutex as it is.
LockNoop(w) == w

\* indexer.flushMutex.Lock() at the entry of esBulkServiceFlush; the deferred
\* Unlock() runs when it returns or panics.
Lock(w) == [w EXCEPT !.mutex = TRUE]

\* esBulkServiceFlush up to the remote call: lock, zero the byte total, return
\* the "nothing was queued" error for an empty service, else call Do().  Do()
\* on a nil client dereferences it.  With the remote call issued the worker
\* waits in "do" (the mutex held) and goes on in DoReturns.
esBulkServiceFlush(w, trigger, k) ==
    LET w1 == [Lock(w) EXCEPT !.bytes = 0]
    IN  IF EmptyBatch(w1.requests)
        THEN [w1 EXCEPT !.mutex = FALSE,
                        !.flushes = Log(@, [trigger |-> trigger, items |-> << >>,
                                            submitted |-> FALSE,
                                            result |-> NothingQueued])]
        ELSE IF client = "nil"
        THEN [w1 EXCEPT !.pc = "panicked",
                        !.mutex = FALSE,
                        !.flushes = Log(@, [trigger |-> trigger, items |-> w1.requests,
                                            submitted |-> FALSE,
                                            result |-> "panic"])]
        ELSE [w1 EXCEPT !.pc = "do",
                        !.call = [trigger |-> trigger, msg |-> k, items |-> w1.requests],
                        !.flushes = Log(@, [trigger |-> trigger, items |-> w1.requests,
                                            submitted |-> TRUE,
                                            result |-> "pending"])]

\* index: reset the ticker when the byte total is zero, validate, flush first
\* when the prospective total meets the maximum, then add the request.
index(w, k) ==
    LET w1 == IF w.bytes = 0 THEN [w EXCEPT !.elapsed = 0] ELSE w
    IN  IF IndexCheck(msgs[k].hdr) # "nil"
        THEN w1
        ELSE IF SizeTrigger(w1.bytes, msgs[k].size)
        THEN LET w2 == esBulkServiceFlush(w1, "size", k)
             IN  IF w2.pc = "select" THEN BulkAdd(w2, k) ELSE w2
        ELSE BulkAdd(w1, k)

\* cleanup: stop the ticker, close the queue.
cleanup(w) ==
    [w EXCEPT !.tickerState = "stopped", !.qClosed = TRUE]

\* One pass of Run's select, taking case c.
RunCase(w, c) ==
    CASE c = "q" ->
            IF Len(w.q) = 0
            THEN w
            ELSE LET k == Head(w.q)
                     w1 == [w EXCEPT !.q = Tail(@)]
                     d == RunCheck(msgs[k].hdr)
                 IN  CASE d = "panic" -> [w1 EXCEPT !.pc = "panicked"]
                       [] d = "skip" -> w1
                       [] OTHER -> index(w1, k)
      [] c = "tick" ->
            esBulkServiceFlush([w EXCEPT !.tickerC = FALSE], "timer", 0)
      [] c = "shutdown" ->
            LET w1 == cleanup([w EXCEPT !.stopPc = "returned"])
                w2 == esBulkServiceFlush(w1, "shutdown", 0)
            IN  IF w2.pc = "select" THEN [w2 EXCEPT !.pc = "returned"] ELSE w2
      [] OTHER -> w

\* The rest of esBulkServiceFlush once Do() has returned, and the rest of its
\* caller: index adds the request, the ticker case loops, shutdown returns.
AfterFlush(w, outcome) ==
    LET n == Len(w.flushes)
        w1 == [w EXCEPT !.requests = AfterDo(outcome, @),
                        !.mutex = FALSE,
                        !.call = NoCall,
                        !.flushes = IF n > 0 /\ @[n].result = "pending"
                                    THEN [@ EXCEPT ![n].result = outcome]
                                    ELSE @]
    IN  CASE w.call.trigger = "size" -> BulkAdd([w1 EXCEPT !.pc = "select"], w.call.msg)
          [] w.call.trigger = "shutdown" -> [w1 EXCEPT !.pc = "returned"]
          [] OTHER -> [w1 EXCEPT !.pc = "select"]

\* ------------------------------------------------------------- actions
\* NewIndexer: the error of GetClient is discarded; the shutdown channel is
\* left at its zero value.
NewIndexer ==
    /\ ~constructed
    /\ constructed' = TRUE
    /\ client' = GetClient(elasticClients).client
    /\ flushMutex' = FALSE
    /\ q' = << >>
    /\ queueSizeInBytes' = 0
    /\ esBulkService' = << >>
    /\ UNCHANGED << elasticClients, shutdown, qClosed, msgs, qReturn, tickerState,
                    tickerC, elapsed, pc, call, flushes, stopPc >>

\* What a call of Q comes to: its send panics on a closed channel, and
\* otherwise Q returns once the send has completed.  Q has no other path.
QOutcome(closed, m) == IF closed THEN "panic" ELSE QResult(m)

\* Q calling index in the producer's context instead of sending on the
\* channel.
QDirect ==
    /\ constructed
    /\ Len(msgs) < MaxMsgs
    /\ \E m \in Message :
          /\ msgs' = Append(msgs, m)
          /\ qReturn' = Append(qReturn, IndexCheck(m.hdr))
          /\ IF IndexCheck(m.hdr) = "nil"
             THEN /\ esBulkService' = Append(esBulkService, Len(msgs) + 1)
                  /\ queueSizeInBytes' = queueSizeInBytes + m.size
             ELSE UNCHANGED << esBulkService, queueSizeInBytes >>
    /\ UNCHANGED << elasticClients, constructed, client, shutdown, q, qClosed,
                    flushMutex, tickerState, tickerC, elapsed, pc, call, flushes,
                    stopPc >>

\* Q: send the message on the buffered channel (blocking while it is full, a
\* panic on a closed channel), then return nil.
Q ==
    /\ constructed
    /\ Len(msgs) < MaxMsgs
    /\ \E m \in Message :
          /\ msgs' = Append(msgs, m)
          /\ qReturn' = Append(qReturn, QOutcome(qClosed, m))
          /\ IF qClosed
             THEN q' = q
             ELSE /\ ~Full(q)
                  /\ q' = Append(q, Len(msgs) + 1)
    /\ UNCHANGED << elasticClients, constructed, client, shutdown, qClosed,
                    esBulkService, queueSizeInBytes, flushMutex, tickerState, tickerC,
                    elapsed, pc, call, flushes, stopPc >>

\* Run, up to its loop: the ticker is created.
RunStart ==
    /\ constructed
    /\ pc = "idle"
    /\ pc' = "select"
    /\ tickerState' = "running"
    /\ elapsed' = 0
    /\ UNCHANGED << elasticClients, constructed, client, shutdown, q, qClosed, msgs,
                    qReturn, esBulkService, queueSizeInBytes, flushMutex, tickerC,
                    call, flushes, stopPc >>

\* Run: one pass of the loop.
RunSelect ==
    /\ pc = "select"
    /\ \E c \in ReadyCases : Becomes(RunCase(Worker, c))
    /\ UNCHANGED << elasticClients, constructed, client, shutdown, msgs, qReturn >>

\* The remote bulk call returns, with a response or with an error.
DoReturns ==
    /\ pc = "do"
    /\ \E outcome \in {"ok", "error"} : Becomes(AfterFlush(Worker, outcome))
    /\ UNCHANGED << elasticClients, constructed, client, shutdown, msgs, qReturn >>

\* Stop: send on the shutdown channel; the send completes in Run's select.
Stop ==
    /\ constructed
    /\ stopPc = "none"
    /\ stopPc' = "sending"
    /\ UNCHANGED << elasticClients, constructed, client, shutdown, q, qClosed, msgs,
                    qReturn, esBulkService, queueSizeInBytes, flushMutex, tickerState,
                    tickerC, elapsed, pc, call, flushes >>

\* A time unit passes; the running ticker fires once per batch interval.
TimePasses ==
    /\ tickerState = "running"
    /\ IF elapsed + 1 >= IntervalUnits
       THEN elapsed' = 0 /\ tickerC' = TRUE
       ELSE elapsed' = elapsed + 1 /\ tickerC' = tickerC
    /\ UNCHANGED << elasticClients, constructed, client, shutdown, q, qClosed, msgs,
                    qReturn, esBulkService, queueSizeInBytes, flushMutex, tickerState,
                    pc, call, flushes, stopPc >>

Next ==
    \/ Q
    \/ RunStart
    \/ RunSelect
    \/ DoReturns
    \/ Stop
    \/ TimePasses

Spec == Init /\ [][Next]_vars

NextNew ==
    \/ NewIndexer
    \/ Next

SpecNew == InitNew /\ [][NextNew]_vars

\* The worker goroutine runs, the remote call returns (it has a timeout), and
\* time passes; producers and the caller of Stop are free to do nothing.
Fairness ==
    /\ WF_vars(RunStart)
    /\ WF_vars(RunSelect)
    /\ WF_vars(DoReturns)
    /\ WF_vars(TimePasses)

FairSpec == Spec /\ Fairness

\* ------------------------------------------------- index, called directly
\* The state in which index is called on its own: a constructed indexer whose
\* ticker has been created, and the messages index will be called with, one
\* call each in this order.  qReturn[i] is the error index returned for
\* msgs[i].
InitIndex ==
    /\ elasticClients = 1
    /\ constructed = TRUE
    /\ client = "live"
    /\ shutdown = NilChan
    /\ q = << >>
    /\ qClosed = FALSE
    /\ msgs \in [1..MaxMsgs -> Message]
    /\ qReturn = << >>
    /\ esBulkService = << >>
    /\ queueSizeInBytes = 0
    /\ flushMutex = FALSE
    /\ tickerState = "running"
    /\ tickerC = FALSE
    /\ elapsed = 0
    /\ pc = "select"
    /\ call = NoCall
    /\ flushes = << >>
    /\ stopPc = "none"

\* index(msg) for the next message, up to its return or to the remote call of
\* the flush it makes.
IndexCall ==
    /\ pc = "select"
    /\ Len(qReturn) < Len(msgs)
    /\ Becomes(index(Worker, Len(qReturn) + 1))
    /\ qReturn' = Append(qReturn, IndexCheck(msgs[Len(qReturn) + 1].hdr))
    /\ UNCHANGED << elasticClients, constructed, client, shutdown, msgs >>

NextIndex ==
    \/ IndexCall
    \/ DoReturns
    \/ TimePasses

SpecIndex == InitIndex /\ [][NextIndex]_vars

\* ------------------------------------------------------------- claims
Valid(i) == msgs[i].hdr = "hasIndex"

\* The flushes that issued a remote bulk submission holding message i.
SubmissionsOf(i) ==
    { j \in 1..Len(flushes) : flushes[j].submitted /\ i \in Range(flushes[j].items) }

\* RunSelect has just dequeued message k.
Dequeues(k) ==
    /\ pc = "select"
    /\ q # << >>
    /\ Head(q) = k
    /\ q' = Tail(q)

\* C1: for every message whose header or header index is absent, Q returns a
\* rejection error, and the message is in the items of no flush.
C1Claim ==
    \A i \in 1..Len(msgs) :
        ~Valid(i) =>
            /\ qReturn[i] # "nil"
            /\ \A j \in 1..Len(flushes) : i \notin Range(flushes[j].items)

\* The part of C1 the code keeps: no invalid message reaches the batch or a
\* flush.
InvalidNeverBatched ==
    \A i \in 1..Len(msgs) :
        ~Valid(i) =>
            /\ i \notin Range(esBulkService)
            /\ \A j \in 1..Len(flushes) : i \notin Range(flushes[j].items)

\* The log has room for the next call of esBulkServiceFlush.
LogOpen == Len(flushes) < MaxFlushes

\* The step of C2: when a valid message k is dequeued and the byte total plus its size
\* meets the maximum batch size, esBulkServiceFlush is called before k is
\* added, with the batch as it was (k not in it), and once index has returned
\* k is the newest member of the batch; a valid message below the maximum is
\* added with no flush; no valid message is dropped.
C2Step ==
    /\ \A k \in 1..Len(msgs) :
          (Dequeues(k) /\ Valid(k)) =>
              IF queueSizeInBytes + msgs[k].size >=
                     defaultElasticsearchIndexerMaxBatchSizeBytes
              THEN /\ k \notin Range(esBulkService)
                   /\ LogOpen =>
                         /\ Len(flushes') = Len(flushes) + 1
                         /\ flushes'[Len(flushes')].trigger = "size"
                         /\ flushes'[Len(flushes')].items = esBulkService
                   /\ IF esBulkService = << >>
                      THEN pc' = "select" /\ esBulkService' = << k >>
                      ELSE /\ pc' = "do"
                           /\ call' = [trigger |-> "size", msg |-> k,
                                       items |-> esBulkService]
                           /\ esBulkService' = esBulkService
              ELSE /\ flushes' = flushes
                   /\ pc' = "select"
                   /\ esBulkService' = Append(esBulkService, k)
    /\ (pc = "do" /\ call.trigger = "size" /\ pc' # "do") =>
          /\ pc' = "select"
          /\ Len(esBulkService') > 0
          /\ esBulkService'[Len(esBulkService')] = call.msg
          /\ call.msg \notin Range(call.items)

\* C2, over every step: the flush comes before the message that crosses the
\* maximum is added, the submitted batch does not hold it, and it is pending
\* once index has returned.
C2Theorem == [][C2Step]_vars

\* A size-triggered flush submitted a batch without the message that
\* triggered it, and that message now is the whole new batch.
C2Witness ==
    /\ pc = "select"
    /\ Len(flushes) > 0
    /\ flushes[Len(flushes)].trigger = "size"
    /\ flushes[Len(flushes)].submitted
    /\ flushes[Len(flushes)].result = "ok"
    /\ Len(esBulkService) = 1
    /\ esBulkService[1] \notin Range(flushes[Len(flushes)].items)

\* The batch holds requests, the worker waits in select and nothing is
\* queued.
QuietNonEmpty ==
    /\ pc = "select"
    /\ esBulkService # << >>
    /\ q = << >>

\* The worker is inside a timer-triggered flush that sent exactly the
\* requests the batch holds.
TimerFlushing ==
    /\ pc = "do"
    /\ call.trigger = "timer"
    /\ call.items = esBulkService

\* C3: once the batch is non-empty and no further message arrives, the
\* worker eventually performs a timer-triggered flush, and every
\* timer-triggered flush submits exactly the requests accumulated so far,
\* whatever the byte total.
C3Theorem ==
    /\ QuietNonEmpty ~> (TimerFlushing \/ q # << >>)
    /\ [][ (pc = "select" /\ tickerC /\ ~tickerC' /\ esBulkService # << >>) =>
              /\ pc' = "do"
              /\ call' = [trigger |-> "timer", msg |-> 0, items |-> esBulkService]
              /\ esBulkService' = esBulkService
              /\ LogOpen =>
                    /\ Len(flushes') = Len(flushes) + 1
                    /\ flushes'[Len(flushes')].trigger = "timer"
                    /\ flushes'[Len(flushes')].submitted
                    /\ flushes'[Len(flushes')].items = esBulkService ]_vars

\* A timer-triggered flush of a non-empty batch whose byte total was below
\* the maximum.
C3Witness ==
    /\ TimerFlushing
    /\ Len(esBulkService) > 0
    /\ \A i \in Range(esBulkService) :
           msgs[i].size < defaultElasticsearchIndexerMaxBatchSizeBytes

\* C4: after Stop() is called while Run is in its loop, Stop() returns and
\* Run receives the shutdown signal and returns (a worker that has panicked
\* on a nil Header is set aside).
C4Claim ==
    (stopPc = "sending" /\ pc = "select") ~>
        ((stopPc = "returned" /\ pc = "returned") \/ pc = "panicked")

\* What the code does instead: a Stop() that has started never returns, and
\* Run never returns.
StopNeverReturns ==
    /\ stopPc # "returned"
    /\ pc # "returned"
    /\ ~qClosed
    /\ tickerState # "stopped"

C6Claim ==
    (pc \in {"panicked", "returned"} /\ LogOpen) =>
        \A i \in 1..Len(msgs) :
            (Valid(i) /\ qReturn[i] = "nil") => SubmissionsOf(i) # {}

\* C7: when GetClient returns an error, NewIndexer returns no indexer.
C7Claim ==
    GetClient(elasticClients).err # "nil" => ~constructed

\* C8: each message is in the items of at most one bulk submission.
C8Claim ==
    \A i \in 1..Len(msgs) : Cardinality(SubmissionsOf(i)) <= 1

\* RunSelect has just taken the ticker case.
TakesTick == pc = "select" /\ tickerC /\ ~tickerC'

\* The step of C9: a flush invoked on an empty batch, from the ticker case or from index,
\* issues no remote call, returns the "nothing was queued" error and leaves
\* the worker in its loop with the mutex released; on the ticker path nothing
\* changes but the byte total, which is zero.
C9Step ==
    /\ (TakesTick /\ esBulkService = << >>) =>
          /\ pc' = "select"
          /\ esBulkService' = << >>
          /\ queueSizeInBytes' = 0
          /\ ~flushMutex'
          /\ call' = NoCall
          /\ UNCHANGED << q, qClosed, msgs, qReturn, tickerState, elapsed, stopPc >>
          /\ LogOpen =>
                flushes' = Append(flushes, [trigger |-> "timer", items |-> << >>,
                                            submitted |-> FALSE,
                                            result |-> NothingQueued])
    /\ \A k \in 1..Len(msgs) :
          ( /\ Dequeues(k)
            /\ Valid(k)
            /\ esBulkService = << >>
            /\ queueSizeInBytes + msgs[k].size >=
                   defaultElasticsearchIndexerMaxBatchSizeBytes ) =>
              /\ pc' = "select"
              /\ ~flushMutex'
              /\ call' = NoCall
              /\ LogOpen =>
                    flushes' = Append(flushes, [trigger |-> "size", items |-> << >>,
                                                submitted |-> FALSE,
                                                result |-> NothingQueued])

\* C9, over every step: a flush of an empty batch sends nothing, returns the
\* "nothing was queued" error and leaves the worker running.
C9Theorem == [][C9Step]_vars

\* The ticker fired on an empty batch: the flush is on record with the error
\* and the worker is back in its select.
C9Witness ==
    /\ pc = "select"
    /\ Len(flushes) > 0
    /\ flushes[Len(flushes)] = [trigger |-> "timer", items |-> << >>,
                                submitted |-> FALSE, result |-> NothingQueued]
    /\ esBulkService = << >>

\* Two fifths of the maximum batch size: 40 bytes to a maximum of 100.
FortyPercent == (2 * defaultElasticsearchIndexerMaxBatchSizeBytes) \div 5

\* The first three messages are valid and of forty percent of the maximum
\* each, the worker has accumulated exactly these three, and the ticker has
\* caused no flush.
C10Scenario ==
    /\ Len(msgs) >= 3
    /\ \A i \in 1..3 : msgs[i] = [hdr |-> "hasIndex", size |-> FortyPercent]
    /\ pc = "select"
    /\ Len(q) = Len(msgs) - 3
    /\ LogOpen
    /\ \A j \in 1..Len(flushes) : flushes[j].trigger = "size"

\* C10: accumulating three valid messages of forty percent of the maximum
\* batch size into an empty batch causes exactly one flush call, which
\* submits exactly the first two, and leaves the third pending with the byte
\* total at its size.
C10Theorem ==
    C10Scenario =>
        /\ Len(flushes) = 1
        /\ flushes[1].trigger = "size"
        /\ flushes[1].submitted
        /\ flushes[1].items = << 1, 2 >>
        /\ flushes[1].result \in {"ok", "error"}
        /\ Len(esBulkService) > 0
        /\ esBulkService[Len(esBulkService)] = 3
        /\ queueSizeInBytes = FortyPercent

\* The scenario of C10 after a successful flush: the third message alone is
\* pending.
C10Witness ==
    /\ C10Scenario
    /\ Len(flushes) = 1
    /\ flushes[1].result = "ok"
    /\ esBulkService = << 3 >>

\* Q has just returned for the message it was called with.
QReturns == Len(qReturn') = Len(qReturn) + 1

\* The step of C11: a Q call whose queue is full does not complete (no
\* message is taken, nothing is returned) until the worker has made room; a Q
\* call that returns success has found room and has put its message at the
\* tail of the queue, and the queue is otherwise as it was.
C11Step ==
    /\ (Len(q) >= QueueCapacity /\ ~qClosed) =>
          /\ msgs' = msgs
          /\ qReturn' = qReturn
          /\ Len(q') <= Len(q)
    /\ (QReturns /\ qReturn'[Len(qReturn')] = "nil") =>
          /\ Len(q) < QueueCapacity
          /\ Len(msgs') = Len(qReturn')
          /\ q' = Append(q, Len(msgs'))

\* C11: Q blocks while the queue is full and returns only once its message
\* is on the queue; the queue never holds more than its capacity; every
\* message has its return value, and success is returned for none that was
\* not enqueued.
C11Theorem ==
    /\ [](Len(q) <= QueueCapacity /\ Len(qReturn) = Len(msgs))
    /\ [][C11Step]_vars

\* The queue is full, and more messages than it holds have been accepted:
\* the last Q call completed only after the worker had made room.
C11Witness ==
    /\ Len(q) = QueueCapacity
    /\ Len(msgs) > QueueCapacity
    /\ qReturn[Len(msgs)] = "nil"
    /\ q[Len(q)] = Len(msgs)

\* The ids of s ascend: its messages are in the order in which their Q calls
\* took effect, which for the calls of one producer is the order of the calls.
Increasing(s) == \A i, j \in 1..Len(s) : i < j => s[i] < s[j]

\* Every message of s precedes every message of t.
Precedes(s, t) == \A a \in Range(s), b \in Range(t) : a < b

\* The order kept across the queue, the message index is about to add, the
\* batch and the recorded flushes.
C12Order ==
    /\ Increasing(q)
    /\ Increasing(esBulkService)
    /\ Precedes(esBulkService, q)
    /\ (pc = "do" /\ call.trigger = "size") =>
          /\ Precedes(esBulkService, << call.msg >>)
          /\ Precedes(<< call.msg >>, q)
    /\ \A j \in 1..Len(flushes) : Increasing(flushes[j].items)
    /\ \A i, j \in 1..Len(flushes) :
          (i < j /\ flushes[i].result = "ok") =>
              Precedes(flushes[i].items, flushes[j].items)

\* The step of C12: the batch grows only at its end and only by the message
\* the worker has just dequeued (after the flush that message caused, if
\* any); otherwise it is left alone or cleared by a successful flush.
C12Step ==
    /\ \A k \in 1..Len(msgs) :
          (Dequeues(k) /\ Valid(k) /\ pc' = "select") =>
              esBulkService' = Append(esBulkService, k)
    /\ (pc = "do" /\ pc' = "select" /\ call.trigger = "size") =>
          esBulkService' \in { << call.msg >>, Append(esBulkService, call.msg) }
    /\ (esBulkService' # esBulkService) =>
          \/ esBulkService' = << >>
          \/ /\ pc = "select"
             /\ q # << >>
             /\ q' = Tail(q)
             /\ esBulkService' = Append(esBulkService, Head(q))
          \/ /\ pc = "do"
             /\ call.trigger = "size"
             /\ esBulkService' \in { << call.msg >>, Append(esBulkService, call.msg) }

\* C12: the queue, the batch and every submitted bulk operation hold their
\* messages in the order of the Q calls, and the batch is extended, at its
\* end, in the order in which the worker dequeues.
C12Theorem ==
    /\ []C12Order
    /\ [][C12Step]_vars

\* A submission of two messages failed and a third message has been
\* accumulated behind them, with an invalid message dropped on the way or
\* not: the batch holds three messages in the order of their Q calls.
C12Witness ==
    /\ pc = "select"
    /\ Len(esBulkService) >= 2
    /\ \E j \in 1..Len(flushes) :
          /\ flushes[j].submitted
          /\ Len(flushes[j].items) >= 2
          /\ flushes[j].result = "error"
          /\ Len(esBulkService) > Len(flushes[j].items)

\* The step of C13: esBulkServiceFlush is entered with the mutex free and
\* takes it; while the remote call is out the mutex stays held and no other
\* flush is entered (nothing is logged, sent, added or zeroed); the mutex is
\* released when the call has returned.
C13Step ==
    /\ (pc = "select" /\ pc' = "do") =>
          /\ ~flushMutex
          /\ flushMutex'
    /\ (pc = "do" /\ pc' = "do") =>
          UNCHANGED << flushMutex, call, flushes, esBulkService, queueSizeInBytes >>
    /\ (pc = "do" /\ pc' # "do") =>
          /\ ~flushMutex'
          /\ call' = NoCall
          /\ Len(flushes') = Len(flushes)

C14Step ==
    /\ (msgs' # msgs \/ qReturn' # qReturn) =>
          UNCHANGED << esBulkService, queueSizeInBytes, flushMutex, call, flushes >>
    /\ (esBulkService' # esBulkService \/ queueSizeInBytes' # queueSizeInBytes) =>
          /\ pc \in {"select", "do"}
          /\ UNCHANGED << msgs, qReturn >>

\* C14: only the worker writes the batch and the byte total; no Q call does.
C14Theorem == [][C14Step]_vars

\* The worker is inside a flush, the byte total zeroed and the requests
\* still in the service, while Q calls have filled the queue behind it.
C14Witness ==
    /\ pc = "do"
    /\ esBulkService # << >>
    /\ queueSizeInBytes = 0
    /\ Len(q) = QueueCapacity
    /\ Len(msgs) = Len(call.items) + Len(q)

\* C15: when a flush that submitted a non-empty batch has returned, with a
\* response or with an error, the bulk service holds none of the requests it
\* sent: nothing but the message whose accumulation caused the flush.
C15Claim ==
    [][ (pc = "do" /\ pc' # "do") =>
            esBulkService' = IF call.trigger = "size" THEN << call.msg >> ELSE << >> ]_vars

\* What the code does: a successful flush empties the service, a failed one
\* leaves in it every request it sent.
FlushClearsOnSuccessOnly ==
    [][ (pc = "do" /\ pc' # "do") =>
            \/ esBulkService' \in { << >>, << call.msg >> }
            \/ /\ Len(esBulkService') >= Len(call.items)
               /\ SubSeq(esBulkService', 1, Len(call.items)) = call.items ]_vars

RECURSIVE PayloadBytes(_)
\* The sum of len(msg.Payload) over the requests s.
PayloadBytes(s) == IF s = << >> THEN 0 ELSE msgs[Head(s)].size + PayloadBytes(Tail(s))

\* C16: while the worker is between operations, queueSizeInBytes is the sum
\* of the payload sizes of the requests the batch holds.
C16Claim ==
    pc \in {"idle", "select"} => queueSizeInBytes = PayloadBytes(esBulkService)

\* What the code keeps of C16: the byte total is the sum over the requests
\* added since the last call of esBulkServiceFlush.
BytesSinceLastFlush ==
    pc \in {"idle", "select"} =>
        \E n \in 0..Len(esBulkService) :
            queueSizeInBytes =
                PayloadBytes(SubSeq(esBulkService, n + 1, Len(esBulkService)))

\* C17: the ticker is re-armed only by a valid message accumulated into a
\* batch that holds nothing; a message accumulated into a batch that holds
\* requests, and a message the worker drops, leave the time to the next tick
\* as it was.
C17Claim ==
    [][ \A k \in 1..Len(msgs) :
            (Dequeues(k) /\ (esBulkService # << >> \/ ~Valid(k))) =>
                elapsed' = elapsed ]_vars

\* What the code does: index re-arms the ticker exactly when the byte total
\* is zero, whatever the batch holds.
RearmsOnZeroBytes ==
    [][ \A k \in 1..Len(msgs) :
            (Dequeues(k) /\ Valid(k)) =>
                elapsed' = IF queueSizeInBytes = 0 THEN 0 ELSE elapsed ]_vars

\* A call of esBulkServiceFlush is made on this step.
FlushCalled == LogOpen /\ Len(flushes') = Len(flushes) + 1

\* The trigger on record for the flush called on this step.
NewTrigger == flushes'[Len(flushes')].trigger

\* Cause (a): the worker dequeues a valid message whose size brings the byte
\* total to the maximum batch size or beyond.
CauseSize ==
    \E k \in 1..Len(msgs) :
        /\ Dequeues(k)
        /\ Valid(k)
        /\ queueSizeInBytes + msgs[k].size >=
               defaultElasticsearchIndexerMaxBatchSizeBytes

\* Cause (b): the worker takes a tick.
CauseTimer == TakesTick /\ q' = q

\* Cause (c): the worker takes the shutdown signal.
CauseShutdown == pc = "select" /\ stopPc = "sending" /\ stopPc' = "returned"

\* The number of causes at work on this step.
Causes ==
    (IF CauseSize THEN 1 ELSE 0) + (IF CauseTimer THEN 1 ELSE 0)
        + (IF CauseShutdown THEN 1 ELSE 0)

\* The step of C18: a step on which esBulkServiceFlush is called, or the
\* remote call is issued, has exactly one cause, the one on record; a step
\* of the worker's loop with none of the three causes calls no flush.
C18Step ==
    /\ (FlushCalled \/ (pc = "select" /\ pc' = "do")) =>
          /\ Causes = 1
          /\ FlushCalled =>
                /\ CauseSize <=> NewTrigger = "size"
                /\ CauseTimer <=> NewTrigger = "timer"
                /\ CauseShutdown <=> NewTrigger = "shutdown"
          /\ pc' = "do" =>
                /\ CauseSize <=> call'.trigger = "size"
                /\ CauseTimer <=> call'.trigger = "timer"
                /\ CauseShutdown <=> call'.trigger = "shutdown"
    /\ (pc = "select" /\ Causes = 0) =>
          /\ flushes' = flushes
          /\ pc' # "do"
          /\ call' = call

\* C18: every flush has exactly one of the three causes, and no branch of
\* the worker's loop without one of them performs a flush.
C18Theorem == [][C18Step]_vars

\* Flushes with a size cause and with a timer cause are on record, one of
\* them submitted, and a message below the maximum has since been accumulated
\* with no flush.
C18Witness ==
    /\ pc = "select"
    /\ LogOpen
    /\ \E i, j \in 1..Len(flushes) :
          /\ flushes[i].trigger = "size"
          /\ flushes[j].trigger = "timer"
          /\ flushes[i].submitted \/ flushes[j].submitted
    /\ esBulkService # << >>
    /\ queueSizeInBytes > 0
    /\ queueSizeInBytes < defaultElasticsearchIndexerMaxBatchSizeBytes

\* C19: when the worker dequeues a message with no header or with no index
\* in its header, it drops it: the batch, the byte total and the flushes are
\* as they were and the worker is in its loop.
C19Claim ==
    [][ \A k \in 1..Len(msgs) :
            (Dequeues(k) /\ ~Valid(k)) =>
                /\ pc' = "select"
                /\ UNCHANGED << esBulkService, queueSizeInBytes, flushes, call >> ]_vars

\* What the code keeps of C19: a message whose header has no index is
\* dropped with nothing else changed.
NilIndexDropped ==
    [][ \A k \in 1..Len(msgs) :
            (Dequeues(k) /\ msgs[k].hdr = "nilIndex") =>
                /\ pc' = "select"
                /\ UNCHANGED << esBulkService, queueSizeInBytes, flushes, call,
                                elapsed, tickerC, msgs, qReturn >> ]_vars

\* The worker's state as its receive on indexer.q reports the queue closed
\* and drained (ok is false).
ClosedQueueSeen == [Worker EXCEPT !.qClosed = TRUE, !.q = << >>]

ClosedQueueLoops ==
    pc = "select" => RunCase(ClosedQueueSeen, "q") = ClosedQueueSeen

QAfterCleanupPanics ==
    pc = "select" =>
        \A m \in Message : QOutcome(cleanup(Worker).qClosed, m) = "panic"

\* Why no behaviour shows it: the queue is never closed, so no Q call has
\* sent on a closed queue.
NoSendOnClosed ==
    /\ ~qClosed
    /\ \A i \in 1..Len(qReturn) : qReturn[i] # "panic"

\* index has just been called with message k.
IndexCalled(k) ==
    /\ pc = "select"
    /\ Len(qReturn) = k - 1
    /\ Len(qReturn') = k

\* The step of C22: a call of index with a message that has no header or no
\* index in its header returns an error, leaves the batch and the byte total
\* as they were, and calls no flush.
C22Step ==
    \A k \in 1..Len(msgs) :
        (IndexCalled(k) /\ msgs[k].hdr \in {"nilHeader", "nilIndex"}) =>
            /\ qReturn'[k] # "nil"
            /\ UNCHANGED << esBulkService, queueSizeInBytes >>
            /\ UNCHANGED << flushes, call, flushMutex, pc >>

\* C22, over every step of index called directly.
C22Theorem == [][C22Step]_vars

\* index has rejected a message of the maximum batch size while the batch
\* held requests: they and the byte total are in place and no flush has been
\* called.
C22Witness ==
    /\ pc = "select"
    /\ Len(qReturn) >= 2
    /\ qReturn[Len(qReturn)] # "nil"
    /\ msgs[Len(qReturn)].size = defaultElasticsearchIndexerMaxBatchSizeBytes
    /\ esBulkService # << >>
    /\ queueSizeInBytes = PayloadBytes(esBulkService)
    /\ queueSizeInBytes > 0
    /\ flushes = << >>

====
